---- MODULE Spec2Model ----
(***************************************************************************)
(* The list map engine of my-trip: the NaverMap component (its script-load *)
(* effect, its map effect with cleanup, the imperative handle it exposes   *)
(* through its ref) and the coordinate and marker-icon utilities it uses.  *)
(*                                                                         *)
(* Numbers are exact rationals [n, d] in lowest terms; d = 0 is NaN.       *)
(* A raw coordinate string is [kind, val]: the empty string, a string that *)
(* parseFloat does not read as a number, or a numeral with its value.      *)
(* SDK objects (markers, info windows) live in markerObj / iwObj, keyed by *)
(* handle <<map, k>>; the refs of the component hold handles.              *)
(***************************************************************************)
EXTENDS Integers, Sequences, FiniteSets, TLC

\* ------------------------------------------------------------- bounds
\* Longest entity list the host view passes in.
MaxTours == 2

\* ------------------------------------------------------------- numbers
NULL == "null"

RECURSIVE GCD(_, _)
GCD(a, b) == IF b = 0 THEN a ELSE GCD(b, a % b)

Abs(x) == IF x < 0 THEN 0 - x ELSE x

\* The rational n/d (d > 0) in lowest terms.
Rat(n, d) ==
    LET g == GCD(Abs(n), d)
    IN  [n |-> n \div g, d |-> d \div g]

NaN == [n |-> 0, d |-> 0]

IsNaN(x) == x.d = 0

\* JS comparison operators: false whenever an operand is NaN.
Lt(x, y) == ~IsNaN(x) /\ ~IsNaN(y) /\ x.n * y.d < y.n * x.d

Gt(x, y) == Lt(y, x)

\* JS +, - on numbers.
Add(x, y) ==
    IF IsNaN(x) \/ IsNaN(y) THEN NaN
    ELSE Rat(x.n * y.d + y.n * x.d, x.d * y.d)

Sub(x, y) ==
    IF IsNaN(x) \/ IsNaN(y) THEN NaN
    ELSE Rat(x.n * y.d - y.n * x.d, x.d * y.d)

\* JS x / k for a positive integer k.
DivInt(x, k) ==
    IF IsNaN(x) THEN NaN
    ELSE LET g == GCD(Abs(x.n), k)
         IN  IF x.n = 0 THEN Rat(0, 1)
             ELSE [n |-> x.n \div g, d |-> x.d * (k \div g)]

\* Math.min / Math.max of two numbers: NaN if either is NaN.
Min2(x, y) == IF IsNaN(x) \/ IsNaN(y) THEN NaN ELSE IF Lt(y, x) THEN y ELSE x

Max2(x, y) == IF IsNaN(x) \/ IsNaN(y) THEN NaN ELSE IF Gt(y, x) THEN y ELSE x

RECURSIVE MinOf(_)
MinOf(s) == IF Len(s) = 1 THEN s[1] ELSE Min2(s[1], MinOf(Tail(s)))

RECURSIVE MaxOf(_)
MaxOf(s) == IF Len(s) = 1 THEN s[1] ELSE Max2(s[1], MaxOf(Tail(s)))

RECURSIVE SumOf(_)
SumOf(s) == IF s = <<>> THEN Rat(0, 1) ELSE Add(s[1], SumOf(Tail(s)))

Range(s) == {s[i] : i \in 1..Len(s)}

\* ------------------------------------------------------------- strings
EmptyStr == [kind |-> "empty", val |-> NaN]

TextStr == [kind |-> "text", val |-> NaN]

Numeral(n, d) == [kind |-> "num", val |-> Rat(n, d)]

\* !s for a string: only the empty string is falsy.
Falsy(s) == s.kind = "empty"

parseFloat(s) == IF s.kind = "num" THEN s.val ELSE NaN

\* ------------------------------------------------------------- coordinates.ts
DIVISOR == 10000000

LngMin == 124

LngMax == 132

LatMin == 33

LatMax == 43

\* Mutant: the parsed values are returned as they are.
convertKATECToWGS84_NoDivide(mapx, mapy) ==
    [longitude |-> parseFloat(mapx), latitude |-> parseFloat(mapy)]

\* Mutant: the edges of the box count as outside it.
convertKATECToWGS84_OpenBox(mapx, mapy) ==
    LET lng0 == parseFloat(mapx)
        lat0 == parseFloat(mapy)
    IN  [longitude |-> IF Lt(lng0, Rat(LngMax, 1)) /\ Gt(lng0, Rat(LngMin, 1))
                       THEN lng0 ELSE DivInt(lng0, DIVISOR),
         latitude |-> IF Lt(lat0, Rat(LatMax, 1)) /\ Gt(lat0, Rat(LatMin, 1))
                      THEN lat0 ELSE DivInt(lat0, DIVISOR)]

convertKATECToWGS84(mapx, mapy) ==
    LET lng0 == parseFloat(mapx)
        lat0 == parseFloat(mapy)
        lng1 == IF Gt(lng0, Rat(LngMax, 1)) \/ Lt(lng0, Rat(LngMin, 1))
                THEN DivInt(lng0, DIVISOR) ELSE lng0
        lat1 == IF Gt(lat0, Rat(LatMax, 1)) \/ Lt(lat0, Rat(LatMin, 1))
                THEN DivInt(lat0, DIVISOR) ELSE lat0
    IN  [longitude |-> lng1, latitude |-> lat1]

\* Coordinates | null is a sequence of length at most one.
getTourCoordinates(tour) ==
    IF Falsy(tour.mapx) \/ Falsy(tour.mapy) THEN <<>>
    ELSE <<convertKATECToWGS84(tour.mapx, tour.mapy)>>

calculateCenterCoordinates(ts) ==
    IF Len(ts) = 0 THEN <<>>
    ELSE LET kept == SelectSeq(ts, LAMBDA t : ~Falsy(t.mapx) /\ ~Falsy(t.mapy))
             coordinates == [i \in 1..Len(kept) |->
                               convertKATECToWGS84(kept[i].mapx, kept[i].mapy)]
         IN  IF Len(coordinates) = 0 THEN <<>>
             ELSE <<[longitude |->
                        DivInt(SumOf([i \in 1..Len(coordinates) |-> coordinates[i].longitude]),
                               Len(coordinates)),
                     latitude |->
                        DivInt(SumOf([i \in 1..Len(coordinates) |-> coordinates[i].latitude]),
                               Len(coordinates))]>>

\* ------------------------------------------------------------- marker-colors.ts
TOUR_SPOT == "12"

CULTURE == "14"

KnownTypes == {TOUR_SPOT, CULTURE}

MARKER_COLORS(t) == IF t = CULTURE THEN "#8B5CF6" ELSE "#3B82F6"

MARKER_BORDER_COLORS(t) == IF t = CULTURE THEN "#6D28D9" ELSE "#1E40AF"

getMarkerColor(contentTypeId) ==
    IF contentTypeId \in KnownTypes THEN MARKER_COLORS(contentTypeId)
    ELSE MARKER_COLORS(TOUR_SPOT)

getMarkerBorderColor(contentTypeId) ==
    IF contentTypeId \in KnownTypes THEN MARKER_BORDER_COLORS(contentTypeId)
    ELSE MARKER_BORDER_COLORS(TOUR_SPOT)

IconSize == 24

IconBorderWidth == 2

\* The html of the icon is determined by the four template parameters.
createMarkerIcon(color, borderColor, size, borderWidth) ==
    [content |-> [color |-> color, borderColor |-> borderColor,
                  size |-> size, borderWidth |-> borderWidth,
                  emphasized |-> FALSE],
     size    |-> [width |-> size, height |-> size],
     anchor  |-> [x |-> size \div 2, y |-> size \div 2]]

getMarkerIconByType(contentTypeId) ==
    createMarkerIcon(getMarkerColor(contentTypeId),
                     getMarkerBorderColor(contentTypeId),
                     IconSize, IconBorderWidth)

\* The emphasized variant of a category's icon: same category colours, marked
\* as the emphasized variant.
getHighlightedMarkerIconByType(contentTypeId) ==
    [getMarkerIconByType(contentTypeId) EXCEPT !.content.emphasized = TRUE]

IsEmphasized(icon) == icon.content.emphasized

\* ------------------------------------------------------------- entities
\* TourItem: the fields the engine reads.  Entity a has decimal coordinates,
\* b coordinates in the legacy fixed-point format (and another category), c
\* comes without coordinates or with coordinates that are not numerals.
TourItem(id, type, mapx, mapy) ==
    [contentid |-> id, contenttypeid |-> type, mapx |-> mapx, mapy |-> mapy]

Entities ==
    { TourItem("a", TOUR_SPOT, Numeral(12698, 100), Numeral(3757, 100)),
      TourItem("b", CULTURE, Numeral(1280000000, 1), Numeral(380000000, 1)),
      TourItem("c", TOUR_SPOT, EmptyStr, EmptyStr),
      TourItem("c", TOUR_SPOT, TextStr, TextStr) }

\* Ids a command may name; "zz" is in no list.
ContentIds == {"a", "b", "c", "zz"}

DistinctIds(ts) ==
    \A i, j \in 1..Len(ts) : i # j => ts[i].contentid # ts[j].contentid

TourLists ==
    {ts \in UNION {[1..n -> Entities] : n \in 0..MaxTours} : DistinctIds(ts)}

\* Arguments of setCenter.
CenterArgs == {[lng |-> Rat(1291, 10), lat |-> Rat(351, 10)]}

\* ------------------------------------------------------------- state
VARIABLES
    tours,                   \* the tours prop of the last committed render
    mounted,                 \* the component is mounted (its ref handle is attached)
    clientId,                \* NEXT_PUBLIC_NAVER_MAP_CLIENT_ID is set
    windowNaver,             \* window.naver.maps is defined
    script,                  \* the script element this instance appended
    scriptLoadedRef,
    isScriptLoaded,
    scriptEffectPending,     \* the mount-time effects have not run yet
    mapEffectPending,        \* a render changed [tours, isScriptLoaded]; the map effect has not run yet
    hasCleanup,              \* the last run of the map effect returned its cleanup
    mapInstanceRef,
    mapCenter,
    mapZoom,
    markersRef,
    infoWindowsRef,
    markerIndexMapRef,
    originalIconsRef,
    highlightedMarkerIdRef,
    markerObj,               \* SDK markers: handle -> [map, icon, position, entity]
    iwObj,                   \* SDK info windows: handle -> [open, anchor, entity]
    threw,                   \* a handler raised an exception
    setIconCalls,            \* setIcon calls made by the handler that ran last
    lastOp                   \* the handler that ran last, with its argument

loadVars == <<clientId, windowNaver, script, scriptLoadedRef, isScriptLoaded,
              scriptEffectPending>>

sessionVars == <<mapInstanceRef, mapCenter, mapZoom, markersRef, infoWindowsRef,
                 markerIndexMapRef, originalIconsRef, highlightedMarkerIdRef,
                 markerObj, iwObj, threw, setIconCalls>>

\* The document the engine instances live in (the page of HomeTourView, which
\* mounts the engine twice): each instance's script-load effect and the script
\* elements appended to document.head.
VARIABLES
    instances,               \* instance -> [phase, scriptLoadedRef, isScriptLoaded, script]
    headScripts              \* the SDK script elements in document.head, in append order

pageVars == <<instances, headScripts>>

\* One call of the coordinate normalizer, and a second call on its result.
VARIABLES
    rawLongitude,            \* mapx
    rawLatitude,             \* mapy
    normalized,              \* <<>> before the call, <<Coordinates>> after it
    renormalized             \* <<>> before the second call, <<Coordinates>> after it

normVars == <<rawLongitude, rawLatitude, normalized, renormalized>>

\* One computation of the view the map effect gives a new map.
VARIABLES
    viewTours,               \* the tours the effect runs with
    initialView              \* <<>> before the run, <<[center, zoom, markers]>> after it

viewVars == <<viewTours, initialView>>

\* The bookmark button of one entity: its React state, the toggle it is
\* waiting for, and the bookmark row on the server.
VARIABLE bookmarkButton

bookmarkVars == <<bookmarkButton>>

vars == <<tours, mounted, mapEffectPending, hasCleanup, loadVars, sessionVars, lastOp,
          pageVars, normVars, viewVars, bookmarkVars>>

\* useRef(null) of mapInstanceRef; a marker's map after setMap(null).
NoMap == 0

NoCenter == [lat |-> NaN, lng |-> NaN]

\* The zoom while there is no map.
NoZoom == NoMap

EmptyMap == [id \in {} |-> NULL]

\* The refs and the SDK objects as one record, so that a handler is a function
\* from the record before it to the record after it.
Cur ==
    [mapInstanceRef |-> mapInstanceRef, mapCenter |-> mapCenter, mapZoom |-> mapZoom,
     markersRef |-> markersRef, infoWindowsRef |-> infoWindowsRef,
     markerIndexMapRef |-> markerIndexMapRef, originalIconsRef |-> originalIconsRef,
     highlightedMarkerIdRef |-> highlightedMarkerIdRef,
     markerObj |-> markerObj, iwObj |-> iwObj, threw |-> threw,
     setIconCalls |-> 0]

Install(s) ==
    /\ mapInstanceRef' = s.mapInstanceRef
    /\ mapCenter' = s.mapCenter
    /\ mapZoom' = s.mapZoom
    /\ markersRef' = s.markersRef
    /\ infoWindowsRef' = s.infoWindowsRef
    /\ markerIndexMapRef' = s.markerIndexMapRef
    /\ originalIconsRef' = s.originalIconsRef
    /\ highlightedMarkerIdRef' = s.highlightedMarkerIdRef
    /\ markerObj' = s.markerObj
    /\ iwObj' = s.iwObj
    /\ threw' = s.threw
    /\ setIconCalls' = s.setIconCalls

Op(name, arg) == [op |-> name, arg |-> arg]

Init ==
    /\ tours \in TourLists
    /\ mounted = TRUE
    /\ clientId \in BOOLEAN
    /\ windowNaver \in BOOLEAN
    /\ script = "none"
    /\ scriptLoadedRef = FALSE
    /\ isScriptLoaded = FALSE
    /\ scriptEffectPending = TRUE
    /\ mapEffectPending = FALSE
    /\ hasCleanup = FALSE
    /\ mapInstanceRef = NoMap
    /\ mapCenter = NoCenter
    /\ mapZoom = NoZoom
    /\ markersRef = <<>>
    /\ infoWindowsRef = <<>>
    /\ markerIndexMapRef = EmptyMap
    /\ originalIconsRef = EmptyMap
    /\ highlightedMarkerIdRef = NULL
    /\ markerObj = EmptyMap
    /\ iwObj = EmptyMap
    /\ threw = FALSE
    /\ setIconCalls = 0
    /\ lastOp = Op("mount", NULL)
    /\ instances = <<>>
    /\ headScripts = <<>>
    /\ rawLongitude = EmptyStr
    /\ rawLatitude = EmptyStr
    /\ normalized = <<>>
    /\ renormalized = <<>>
    /\ viewTours = <<>>
    /\ initialView = <<>>
    /\ bookmarkButton = <<>>

\* ------------------------------------------------------------- SDK objects
\* arr[i] of a JS array (0-based): <<>> stands for undefined.
At(arr, i) == IF i >= 0 /\ i < Len(arr) THEN <<arr[i + 1]>> ELSE <<>>

\* tours.findIndex((t) => t.contentid === contentId): -1 when there is none.
findIndex(ts, contentId) ==
    LET hits == {i \in 1..Len(ts) : ts[i].contentid = contentId}
    IN  IF hits = {} THEN 0 - 1
        ELSE (CHOOSE i \in hits : \A j \in hits : i <= j) - 1

\* tours.find((t) => t.contentid === contentId)
find(ts, contentId) == At(ts, findIndex(ts, contentId))

\* target.setIcon(icon); target is what an array access returned.
setIcon(s, target, icon) ==
    IF target = <<>> THEN [s EXCEPT !.threw = TRUE]
    ELSE [s EXCEPT !.markerObj[target[1]].icon = icon,
                   !.setIconCalls = @ + 1]

\* Mutant: the markers stay on their map.
DetachAll_Noop(mo, refs) == mo

\* markers.forEach((marker) => marker?.setMap(null))
DetachAll(mo, refs) ==
    [h \in DOMAIN mo |->
        IF h \in Range(refs) THEN [mo[h] EXCEPT !.map = NoMap] ELSE mo[h]]

\* infoWindows.forEach((iw) => iw?.close())
CloseAll(io, refs) ==
    [h \in DOMAIN io |->
        IF h \in Range(refs) THEN [io[h] EXCEPT !.open = FALSE, !.anchor = <<>>]
        ELSE io[h]]

\* infoWindow.open(map, marker)
open(io, h, marker) == [io EXCEPT ![h].open = TRUE, ![h].anchor = marker]

\* ------------------------------------------------------------- imperative handle
moveToMarker(s, ts, contentId) ==
    LET tour == find(ts, contentId)
    IN  IF tour = <<>> \/ s.mapInstanceRef = NoMap THEN s
        ELSE
        LET coords == getTourCoordinates(tour[1])
        IN  IF coords = <<>> THEN s
            ELSE
            LET s1 == [s EXCEPT !.mapCenter = [lat |-> coords[1].latitude,
                                               lng |-> coords[1].longitude]]
                markerIndex == findIndex(ts, contentId)
                iw == At(s.infoWindowsRef, markerIndex)
            IN  IF markerIndex >= 0 /\ iw # <<>>
                THEN [s1 EXCEPT !.iwObj =
                        open(CloseAll(s.iwObj, s.infoWindowsRef), iw[1],
                             At(s.markersRef, markerIndex))]
                ELSE s1

\* Mutant: setCenter without its guard on mapInstanceRef.
setCenter_NoGuard(s, longitude, latitude) ==
    [s EXCEPT !.mapCenter = [lat |-> latitude, lng |-> longitude]]

\* Mutant: setCenter closes the info windows of the session.
setCenter_ClosesWindows(s, longitude, latitude) ==
    IF s.mapInstanceRef = NoMap THEN s
    ELSE [s EXCEPT !.mapCenter = [lat |-> latitude, lng |-> longitude],
                   !.iwObj = CloseAll(s.iwObj, s.infoWindowsRef)]

setCenter(s, longitude, latitude) ==
    IF s.mapInstanceRef = NoMap THEN s
    ELSE [s EXCEPT !.mapCenter = [lat |-> latitude, lng |-> longitude]]

\* Mutant: the marker highlighted before keeps its emphasized icon.
RestorePrevious_Skip(s) == s

\* Mutant: the marker highlighted before gets the default category's icon
\* instead of its cached one.
RestorePrevious_Default(s) ==
    IF s.highlightedMarkerIdRef \notin DOMAIN s.markerIndexMapRef THEN s
    ELSE setIcon(s, At(s.markersRef, s.markerIndexMapRef[s.highlightedMarkerIdRef]),
                 getMarkerIconByType(TOUR_SPOT))

\* Lines 516-529: restore the marker that is highlighted now.
RestorePrevious(s) ==
    IF s.highlightedMarkerIdRef = NULL THEN s
    ELSE
    LET prev == s.highlightedMarkerIdRef
    IN  IF prev \notin DOMAIN s.markerIndexMapRef THEN s
        ELSE
        LET prevMarker == At(s.markersRef, s.markerIndexMapRef[prev])
        IN  IF prevMarker = <<>> THEN s
            ELSE IF prev \in DOMAIN s.originalIconsRef
                 THEN setIcon(s, prevMarker, s.originalIconsRef[prev])
                 ELSE s

\* Lines 531-543: cache the normal icon of the entity unless one is cached.
CacheOriginal(s, tour) ==
    IF tour.contentid \in DOMAIN s.originalIconsRef THEN s
    ELSE [s EXCEPT !.originalIconsRef =
            (tour.contentid :> getMarkerIconByType(tour.contenttypeid)) @@ @]

\* Mutant: highlightMarker without the check for the entity highlighted already.
highlightMarker_NoSuppress(s, ts, contentId) ==
    IF contentId \notin DOMAIN s.markerIndexMapRef THEN s
    ELSE
    LET marker == At(s.markersRef, s.markerIndexMapRef[contentId])
        tour == find(ts, contentId)
    IN  IF marker = <<>> THEN s
        ELSE IF tour = <<>> \/ ~windowNaver THEN s
        ELSE
        LET s1 == RestorePrevious(s)
            s2 == CacheOriginal(s1, tour[1])
            s3 == setIcon(s2, marker,
                          getHighlightedMarkerIconByType(tour[1].contenttypeid))
        IN  [s3 EXCEPT !.highlightedMarkerIdRef = contentId]

\* Mutant: highlightMarker without the guard on the registry lookup.
highlightMarker_NoMarkerGuard(s, ts, contentId) ==
    LET marker == IF contentId \in DOMAIN s.markerIndexMapRef
                  THEN At(s.markersRef, s.markerIndexMapRef[contentId])
                  ELSE <<>>
        tour == find(ts, contentId)
    IN  IF tour = <<>> \/ ~windowNaver THEN s
        ELSE IF s.highlightedMarkerIdRef = contentId THEN s
        ELSE
        LET s1 == RestorePrevious(s)
            s2 == CacheOriginal(s1, tour[1])
            s3 == setIcon(s2, marker,
                          getHighlightedMarkerIconByType(tour[1].contenttypeid))
        IN  [s3 EXCEPT !.highlightedMarkerIdRef = contentId]

\* Mutant: highlightMarker records the id of an entity of the list that has no
\* marker in the registry.
highlightMarker_RecordsUnregistered(s, ts, contentId) ==
    LET tour == find(ts, contentId)
    IN  IF tour = <<>> \/ ~windowNaver THEN s
        ELSE IF s.highlightedMarkerIdRef = contentId THEN s
        ELSE IF contentId \notin DOMAIN s.markerIndexMapRef
        THEN [RestorePrevious(s) EXCEPT !.highlightedMarkerIdRef = contentId]
        ELSE
        LET marker == At(s.markersRef, s.markerIndexMapRef[contentId])
            s1 == RestorePrevious(s)
            s2 == CacheOriginal(s1, tour[1])
            s3 == setIcon(s2, marker,
                          getHighlightedMarkerIconByType(tour[1].contenttypeid))
        IN  [s3 EXCEPT !.highlightedMarkerIdRef = contentId]

highlightMarker(s, ts, contentId) ==
    IF contentId \notin DOMAIN s.markerIndexMapRef THEN s
    ELSE
    LET marker == At(s.markersRef, s.markerIndexMapRef[contentId])
        tour == find(ts, contentId)
    IN  IF marker = <<>> THEN s
        ELSE IF tour = <<>> \/ ~windowNaver THEN s
        ELSE IF s.highlightedMarkerIdRef = contentId THEN s
        ELSE
        LET s1 == RestorePrevious(s)
            s2 == CacheOriginal(s1, tour[1])
            s3 == setIcon(s2, marker,
                          getHighlightedMarkerIconByType(tour[1].contenttypeid))
        IN  [s3 EXCEPT !.highlightedMarkerIdRef = contentId]

\* Mutant: unhighlightMarker forgets the id without restoring the icon.
unhighlightMarker_NoRestore(s) == [s EXCEPT !.highlightedMarkerIdRef = NULL]

unhighlightMarker(s) ==
    IF s.highlightedMarkerIdRef = NULL THEN s
    ELSE
    LET contentId == s.highlightedMarkerIdRef
        marker == IF contentId \in DOMAIN s.markerIndexMapRef
                  THEN At(s.markersRef, s.markerIndexMapRef[contentId])
                  ELSE <<>>
    IN  IF marker = <<>> THEN [s EXCEPT !.highlightedMarkerIdRef = NULL]
        ELSE
        LET s1 == IF contentId \in DOMAIN s.originalIconsRef
                  THEN setIcon(s, marker, s.originalIconsRef[contentId])
                  ELSE s
        IN  [s1 EXCEPT !.highlightedMarkerIdRef = NULL]

\* ------------------------------------------------------------- map effect
DefaultLat == Rat(375665, 10000)

DefaultLng == Rat(126978, 1000)

ZoomWithTours == 12

ZoomNoTours == 10

\* Mutant: the cleanup detaches and closes, and keeps the maps and the id.
Cleanup_KeepsMaps(s) ==
    [s EXCEPT !.markerObj = DetachAll(s.markerObj, s.markersRef),
              !.iwObj = CloseAll(s.iwObj, s.infoWindowsRef)]

\* Mutant: the cleanup keeps the id of the highlighted entity.
Cleanup_KeepsHighlight(s) ==
    [s EXCEPT !.markerObj = DetachAll(s.markerObj, s.markersRef),
              !.iwObj = CloseAll(s.iwObj, s.infoWindowsRef),
              !.markerIndexMapRef = EmptyMap,
              !.originalIconsRef = EmptyMap]

\* Lines 785-801: the cleanup the map effect returns.
Cleanup(s) ==
    [s EXCEPT !.markerObj = DetachAll(s.markerObj, s.markersRef),
              !.iwObj = CloseAll(s.iwObj, s.infoWindowsRef),
              !.markerIndexMapRef = EmptyMap,
              !.originalIconsRef = EmptyMap,
              !.highlightedMarkerIdRef = NULL]

\* Lines 636-640: remove the markers and info windows the refs still hold.
Teardown(s) ==
    [s EXCEPT !.markerObj = DetachAll(s.markerObj, s.markersRef),
              !.iwObj = CloseAll(s.iwObj, s.infoWindowsRef),
              !.markersRef = <<>>,
              !.infoWindowsRef = <<>>]

\* Objects no ref holds any more stay in the model only while they are on
\* screen (a marker attached to a map, an open info window).
OnScreen(s) ==
    {h \in DOMAIN s.markerObj :
        \/ h \in Range(s.markersRef)
        \/ s.markerObj[h].map # NoMap
        \/ s.iwObj[h].open}

Collect(s) ==
    [s EXCEPT !.markerObj = [h \in OnScreen(s) |-> s.markerObj[h]],
              !.iwObj = [h \in OnScreen(s) |-> s.iwObj[h]]]

\* new maps.Map(...): a map instance other than the one before it and than
\* those the objects on screen belong to.
MapInUse(s, m) ==
    \/ m = s.mapInstanceRef
    \/ \E h \in DOMAIN s.markerObj : h[1] = m

NewMap(s) ==
    CHOOSE m \in 1..(Cardinality(DOMAIN s.markerObj) + 2) :
        /\ ~MapInUse(s, m)
        /\ \A k \in 1..(m - 1) : MapInUse(s, k)

\* Lines 642-655: the map at its first centre and zoom.
CreateMap(s, ts) ==
    LET center == calculateCenterCoordinates(ts)
    IN  [s EXCEPT !.mapInstanceRef = NewMap(s),
                  !.mapCenter = IF center # <<>>
                                THEN [lat |-> center[1].latitude,
                                      lng |-> center[1].longitude]
                                ELSE [lat |-> DefaultLat, lng |-> DefaultLng],
                  !.mapZoom = IF center # <<>> THEN ZoomWithTours ELSE ZoomNoTours]

\* Lines 658-746: one marker and one info window per tour that has coordinates,
\* pushed in list order; the index map and the icon cache are set per tour.
CreateMarkers(s, ts) ==
    LET map == s.mapInstanceRef
        made == SelectSeq(ts, LAMBDA t : getTourCoordinates(t) # <<>>)
        hs == [k \in 1..Len(made) |-> <<map, k>>]
        ids == {made[k].contentid : k \in 1..Len(made)}
        last(id) == CHOOSE k \in 1..Len(made) :
                        /\ made[k].contentid = id
                        /\ \A j \in 1..Len(made) : made[j].contentid = id => j <= k
        newMarkers == [h \in Range(hs) |->
                         LET tour == made[h[2]]
                             coords == getTourCoordinates(tour)[1]
                             icon == getMarkerIconByType(tour.contenttypeid)
                         IN  [map |-> map,
                              icon |-> icon,
                              icon0 |-> icon,
                              position |-> [lat |-> coords.latitude,
                                            lng |-> coords.longitude],
                              entity |-> tour.contentid]]
        newWindows == [h \in Range(hs) |->
                         [open |-> FALSE, anchor |-> <<>>,
                          entity |-> made[h[2]].contentid]]
    IN  [s EXCEPT !.markersRef = @ \o hs,
                  !.infoWindowsRef = @ \o hs,
                  !.markerIndexMapRef =
                      [id \in ids |-> Len(s.markersRef) + last(id) - 1] @@ @,
                  !.originalIconsRef =
                      [id \in ids |->
                          getMarkerIconByType(made[last(id)].contenttypeid)] @@ @,
                  !.markerObj = newMarkers @@ @,
                  !.iwObj = newWindows @@ @]

\* Mutant: the two closest steps of the table are exchanged.
ZoomFor_StepsExchanged(maxDiff) ==
    IF Lt(maxDiff, Rat(1, 100)) THEN 13
    ELSE IF Lt(maxDiff, Rat(5, 100)) THEN 15
    ELSE IF Lt(maxDiff, Rat(1, 10)) THEN 12
    ELSE IF Lt(maxDiff, Rat(5, 10)) THEN 10
    ELSE 8

\* Lines 769-779: the zoom step table.
ZoomFor(maxDiff) ==
    IF Lt(maxDiff, Rat(1, 100)) THEN 15
    ELSE IF Lt(maxDiff, Rat(5, 100)) THEN 13
    ELSE IF Lt(maxDiff, Rat(1, 10)) THEN 12
    ELSE IF Lt(maxDiff, Rat(5, 10)) THEN 10
    ELSE 8

\* Lines 748-783: with more than one tour, centre and zoom on the bounds.
FitBounds(s, ts) ==
    IF Len(ts) > 1
    THEN LET made == SelectSeq(ts, LAMBDA t : getTourCoordinates(t) # <<>>)
             lats == [k \in 1..Len(made) |-> getTourCoordinates(made[k])[1].latitude]
             lngs == [k \in 1..Len(made) |-> getTourCoordinates(made[k])[1].longitude]
         IN  IF Len(made) > 0
             THEN LET latDiff == Sub(MaxOf(lats), MinOf(lats))
                      lngDiff == Sub(MaxOf(lngs), MinOf(lngs))
                  IN  [s EXCEPT
                         !.mapCenter =
                             [lat |-> DivInt(Add(MinOf(lats), MaxOf(lats)), 2),
                              lng |-> DivInt(Add(MinOf(lngs), MaxOf(lngs)), 2)],
                         !.mapZoom = ZoomFor(Max2(latDiff, lngDiff))]
             ELSE s
    ELSE s

\* Lines 634-783: the body of the map effect past its guard.
Build(s, ts) == FitBounds(CreateMarkers(CreateMap(Collect(Teardown(s)), ts), ts), ts)

\* Line 630: the guard of the map effect (mapRef.current is set while mounted).
EffectGuard == windowNaver /\ isScriptLoaded

\* ------------------------------------------------------------- actions
\* Lines 587-625, run once after mount.  The map effect of the same flush sees
\* isScriptLoaded = false and returns; setIsScriptLoaded(true) schedules the
\* render whose map effect is then pending.
ScriptLoadEffect ==
    /\ mounted /\ scriptEffectPending
    /\ scriptEffectPending' = FALSE
    /\ IF scriptLoadedRef
       THEN /\ isScriptLoaded' = (isScriptLoaded \/ windowNaver)
            /\ UNCHANGED <<scriptLoadedRef, script>>
       ELSE IF ~clientId
       THEN UNCHANGED <<isScriptLoaded, scriptLoadedRef, script>>
       ELSE IF windowNaver
       THEN /\ scriptLoadedRef' = TRUE
            /\ isScriptLoaded' = TRUE
            /\ UNCHANGED script
       ELSE /\ script' = "loading"
            /\ UNCHANGED <<isScriptLoaded, scriptLoadedRef>>
    /\ mapEffectPending' = (isScriptLoaded' # isScriptLoaded)
    /\ lastOp' = Op("scriptLoadEffect", NULL)
    /\ UNCHANGED <<tours, mounted, clientId, windowNaver, hasCleanup, sessionVars>>
    /\ UNCHANGED <<pageVars, normVars, viewVars, bookmarkVars>>

\* Mutant: the load callback sets the flag and no render follows it.
ScriptOnload_NoRerender ==
    /\ script = "loading"
    /\ script' = "loaded"
    /\ windowNaver' = TRUE
    /\ scriptLoadedRef' = TRUE
    /\ isScriptLoaded' = mounted
    /\ lastOp' = Op("onload", NULL)
    /\ UNCHANGED <<tours, mounted, clientId, scriptEffectPending, mapEffectPending,
                   hasCleanup, sessionVars>>
    /\ UNCHANGED <<pageVars, normVars, viewVars, bookmarkVars>>

\* Lines 613-616: script.onload.  The SDK has defined window.naver.maps.
ScriptOnload ==
    /\ script = "loading"
    /\ script' = "loaded"
    /\ windowNaver' = TRUE
    /\ scriptLoadedRef' = TRUE
    /\ isScriptLoaded' = mounted
    /\ mapEffectPending' = (mapEffectPending \/ mounted)
    /\ lastOp' = Op("onload", NULL)
    /\ UNCHANGED <<tours, mounted, clientId, scriptEffectPending, hasCleanup, sessionVars>>
    /\ UNCHANGED <<pageVars, normVars, viewVars, bookmarkVars>>

\* Lines 617-619: script.onerror only logs.
ScriptOnerror ==
    /\ script = "loading"
    /\ script' = "error"
    /\ lastOp' = Op("onerror", NULL)
    /\ UNCHANGED <<tours, mounted, clientId, windowNaver, scriptLoadedRef,
                   isScriptLoaded, scriptEffectPending, mapEffectPending,
                   hasCleanup, sessionVars>>
    /\ UNCHANGED <<pageVars, normVars, viewVars, bookmarkVars>>

\* The host view renders with a new tours array.  React runs the effects of a
\* committed render before it renders again.
Render(newTours) ==
    /\ mounted /\ ~scriptEffectPending /\ ~mapEffectPending
    /\ tours' = newTours
    /\ mapEffectPending' = TRUE
    /\ lastOp' = Op("render", NULL)
    /\ UNCHANGED <<mounted, hasCleanup, loadVars, sessionVars>>
    /\ UNCHANGED <<pageVars, normVars, viewVars, bookmarkVars>>

\* What the command that ran since the last render or effect left for the map
\* effect to clean up: a highlighted entity, an open info window, or nothing.
Leftover ==
    IF lastOp.op = "highlightMarker" /\ highlightedMarkerIdRef # NULL THEN "highlighted"
    ELSE IF lastOp.op = "moveToMarker" /\ \E h \in DOMAIN iwObj : iwObj[h].open THEN "opened"
    ELSE NULL

\* Lines 628-802: the cleanup of the previous run, then the effect.
MapEffect ==
    /\ mounted /\ mapEffectPending
    /\ mapEffectPending' = FALSE
    /\ LET s1 == IF hasCleanup THEN Cleanup(Cur) ELSE Cur
       IN  IF EffectGuard
           THEN Install(Build(s1, tours)) /\ hasCleanup' = TRUE
           ELSE Install(s1) /\ hasCleanup' = FALSE
    /\ lastOp' = Op("mapEffect", Leftover)
    /\ UNCHANGED <<tours, mounted, loadVars>>
    /\ UNCHANGED <<pageVars, normVars, viewVars, bookmarkVars>>

\* Unmount: the cleanup of the last run, the ref handle is detached.
Unmount ==
    /\ mounted
    /\ mounted' = FALSE
    /\ mapEffectPending' = FALSE
    /\ hasCleanup' = FALSE
    /\ Install(IF hasCleanup THEN Cleanup(Cur) ELSE Cur)
    /\ lastOp' = Op("unmount", NULL)
    /\ UNCHANGED <<tours, loadVars>>
    /\ UNCHANGED <<pageVars, normVars, viewVars, bookmarkVars>>

Command(s, op) ==
    /\ mounted
    /\ Install(s)
    /\ lastOp' = op
    /\ UNCHANGED <<tours, mounted, mapEffectPending, hasCleanup, loadVars>>
    /\ UNCHANGED <<pageVars, normVars, viewVars, bookmarkVars>>

MoveToMarker(contentId) == Command(moveToMarker(Cur, tours, contentId), Op("moveToMarker", contentId))

SetCenter(c) == Command(setCenter(Cur, c.lng, c.lat), Op("setCenter", NULL))

HighlightMarker(contentId) == Command(highlightMarker(Cur, tours, contentId), Op("highlightMarker", contentId))

UnhighlightMarker == Command(unhighlightMarker(Cur), Op("unhighlightMarker", NULL))

\* Mutant: the click listener opens its info window and closes no other.
clickListener_NoClose(s, h) == [s EXCEPT !.iwObj = open(s.iwObj, h, <<h>>)]

\* Lines 730-745: the click listener of marker h (a marker on a map).
clickListener(s, h) ==
    [s EXCEPT !.iwObj = open(CloseAll(s.iwObj, s.infoWindowsRef), h, <<h>>)]

MarkerClick(h) ==
    /\ h \in DOMAIN markerObj
    /\ markerObj[h].map # NoMap
    /\ Install(clickListener(Cur, h))
    /\ lastOp' = Op("click", markerObj[h].entity)
    /\ UNCHANGED <<tours, mounted, mapEffectPending, hasCleanup, loadVars>>
    /\ UNCHANGED <<pageVars, normVars, viewVars, bookmarkVars>>

Next ==
    \/ ScriptLoadEffect
    \/ ScriptOnload
    \/ ScriptOnerror
    \/ \E ts \in TourLists : Render(ts)
    \/ MapEffect
    \/ Unmount
    \/ \E id \in ContentIds : MoveToMarker(id)
    \/ \E c \in CenterArgs : SetCenter(c)
    \/ \E id \in ContentIds : HighlightMarker(id)
    \/ UnhighlightMarker
    \/ \E h \in DOMAIN markerObj : MarkerClick(h)

Spec == Init /\ [][Next]_vars

\* ------------------------------------------------------------- observations
Attached(h) == markerObj[h].map # NoMap

\* The markers that display the emphasized icon.
Emphasized == {h \in DOMAIN markerObj : Attached(h) /\ IsEmphasized(markerObj[h].icon)}

\* The marker the registry holds for an id: <<>> when it holds none.
Registered(id) ==
    IF id \in DOMAIN markerIndexMapRef
    THEN At(markersRef, markerIndexMapRef[id])
    ELSE <<>>

\* Some marker on a map was created for the id.
HasMarker(id) ==
    \E h \in DOMAIN markerObj : Attached(h) /\ markerObj[h].entity = id

InList(id) == \E i \in 1..Len(tours) : tours[i].contentid = id

OpenWindows == {h \in DOMAIN iwObj : iwObj[h].open}

\* ------------------------------------------------------------- C1
\* C1: in every reachable state at most one marker displays the emphasized
\* icon, and a marker that does is the one the registry holds for
\* highlightedMarkerIdRef (and was created for that entity).
C1_AtMostOneEmphasized ==
    /\ Cardinality(Emphasized) <= 1
    /\ \A h \in Emphasized :
          /\ highlightedMarkerIdRef # NULL
          /\ Registered(highlightedMarkerIdRef) = <<h>>
          /\ markerObj[h].entity = highlightedMarkerIdRef

\* A second entity was highlighted after a first: one marker is emphasized
\* among two on the map, and two icons were set by the handler.
C1_Witness ==
    /\ Cardinality(Emphasized) = 1
    /\ Cardinality({h \in DOMAIN markerObj : Attached(h)}) = 2
    /\ lastOp.op = "highlightMarker"
    /\ setIconCalls = 2

\* ------------------------------------------------------------- C2
\* C2: for distinct entities A and B of the list that both have markers,
\* highlightMarker(B) right after highlightMarker(A) leaves B's marker the only
\* emphasized one, sets highlightedMarkerIdRef to B, and A's marker shows an
\* icon equal to the one it was created with.
C2_HighlightAThenB ==
    [][\A A, B \in ContentIds :
          ( /\ A # B
            /\ InList(A) /\ HasMarker(A)
            /\ InList(B) /\ HasMarker(B)
            /\ lastOp = Op("highlightMarker", A)
            /\ HighlightMarker(B) )
          => ( /\ highlightedMarkerIdRef = A
               /\ highlightedMarkerIdRef' = B
               /\ Emphasized' = {Registered(B)[1]}
               /\ markerObj'[Registered(B)[1]].entity = B
               /\ markerObj'[Registered(A)[1]].icon = markerObj[Registered(A)[1]].icon0
               /\ ~threw' )]_vars

\* b was highlighted right after another entity: b's marker is emphasized and
\* the other marker on the map shows the icon it was created with.
C2_Witness ==
    /\ lastOp = Op("highlightMarker", "b")
    /\ setIconCalls = 2
    /\ highlightedMarkerIdRef = "b"
    /\ \E h \in DOMAIN markerObj :
          /\ Attached(h) /\ markerObj[h].entity = "a"
          /\ markerObj[h].icon = markerObj[h].icon0

\* ------------------------------------------------------------- C3
\* C3: highlightMarker(id) while id is the highlighted entity sets no icon and
\* changes neither the markers, the icon cache nor highlightedMarkerIdRef.
C3_RehighlightIsNoOp ==
    [][\A id \in ContentIds :
          (highlightedMarkerIdRef = id /\ HighlightMarker(id))
          => ( /\ setIconCalls' = 0
               /\ ~threw'
               /\ UNCHANGED <<mapInstanceRef, mapCenter, mapZoom, markersRef,
                              infoWindowsRef, markerIndexMapRef, originalIconsRef,
                              highlightedMarkerIdRef, markerObj, iwObj>> )]_vars

\* highlightMarker("a") ran last, a is highlighted and its marker emphasized,
\* and the handler set no icon: the call was a repeated highlight.
C3_Witness ==
    /\ lastOp = Op("highlightMarker", "a")
    /\ highlightedMarkerIdRef = "a"
    /\ Registered("a") # <<>>
    /\ Emphasized = {Registered("a")[1]}
    /\ setIconCalls = 0

\* ------------------------------------------------------------- C4
\* C4: unhighlightMarker() from Highlighted(id) sets id's marker to its cached
\* normal icon and leaves no entity highlighted; from Idle it changes nothing;
\* either way it raises no error, so a second call in a row changes nothing.
C4_Unhighlight ==
    [][UnhighlightMarker
          => ( /\ ~threw'
               /\ highlightedMarkerIdRef' = NULL
               /\ UNCHANGED <<mapInstanceRef, mapCenter, mapZoom, markersRef,
                              infoWindowsRef, markerIndexMapRef, originalIconsRef,
                              iwObj>>
               /\ IF highlightedMarkerIdRef = NULL
                  THEN setIconCalls' = 0 /\ UNCHANGED markerObj
                  ELSE LET id == highlightedMarkerIdRef
                           m == Registered(id)
                       IN  /\ m # <<>>
                           /\ id \in DOMAIN originalIconsRef
                           /\ markerObj' = [markerObj EXCEPT
                                              ![m[1]].icon = originalIconsRef[id]]
                           /\ ~IsEmphasized(originalIconsRef[id])
                           /\ Emphasized' = {} )]_vars

\* unhighlightMarker() ran last and restored an icon: nothing is highlighted
\* and every marker on the map shows the icon it was created with.
C4_Witness ==
    /\ lastOp.op = "unhighlightMarker"
    /\ setIconCalls = 1
    /\ highlightedMarkerIdRef = NULL
    /\ \E h \in DOMAIN markerObj : Attached(h)
    /\ \A h \in DOMAIN markerObj : Attached(h) => markerObj[h].icon = markerObj[h].icon0

\* ------------------------------------------------------------- C5
\* C5: highlightMarker(id) for an id no marker on the map was created for
\* raises no error, sets no icon and leaves highlightedMarkerIdRef, the markers
\* and the icon cache as they were.
C5_UnknownIdHighlight ==
    [][\A id \in ContentIds :
          (~HasMarker(id) /\ HighlightMarker(id))
          => ( /\ ~threw'
               /\ setIconCalls' = 0
               /\ UNCHANGED <<mapInstanceRef, mapCenter, mapZoom, markersRef,
                              infoWindowsRef, markerIndexMapRef, originalIconsRef,
                              highlightedMarkerIdRef, markerObj, iwObj>> )]_vars

\* highlightMarker ran last for an id without a marker (c has no coordinates,
\* zz is in no list) while another marker was, and stays, emphasized.
C5_Witness ==
    /\ lastOp.op = "highlightMarker"
    /\ lastOp.arg \in {"c", "zz"}
    /\ ~HasMarker(lastOp.arg)
    /\ highlightedMarkerIdRef = "a"
    /\ Emphasized # {}

\* ------------------------------------------------------------- C6
\* Both raw coordinates of the tour read as numbers.
ParsesAsPosition(tour) ==
    ~IsNaN(parseFloat(tour.mapx)) /\ ~IsNaN(parseFloat(tour.mapy))

\* The entity of the list with the id has coordinates that resolve.
Resolvable(id) ==
    \E i \in 1..Len(tours) : tours[i].contentid = id /\ ParsesAsPosition(tours[i])

\* C6: moveToMarker(id) for an id that is not in the list, or whose entity has
\* no resolvable coordinates, raises no error and leaves the map centre, the
\* open info windows and the highlight state as they were.
C6_MoveToUnresolvable ==
    [][\A id \in ContentIds :
          (~Resolvable(id) /\ MoveToMarker(id))
          => ( /\ ~threw'
               /\ OpenWindows' = OpenWindows
               /\ UNCHANGED <<mapCenter, mapZoom, highlightedMarkerIdRef,
                              markerObj>> )]_vars

\* ------------------------------------------------------------- C7
AnyCommand ==
    \/ \E id \in ContentIds : MoveToMarker(id)
    \/ \E c \in CenterArgs : SetCenter(c)
    \/ \E id \in ContentIds : HighlightMarker(id)
    \/ UnhighlightMarker

\* C7: while isScriptLoaded is false or no map is constructed, a command
\* changes nothing and raises no error; and the step that constructs the first
\* map leaves no entity highlighted, no marker emphasized, no info window open
\* and the map at the view computed from the list.
C7_DroppedUntilReady ==
    [][ /\ ((~isScriptLoaded \/ mapInstanceRef = NoMap) /\ AnyCommand)
           => ( /\ ~threw'
                /\ setIconCalls' = 0
                /\ UNCHANGED <<mapInstanceRef, mapCenter, mapZoom, markersRef,
                               infoWindowsRef, markerIndexMapRef, originalIconsRef,
                               highlightedMarkerIdRef, markerObj, iwObj>> )
        /\ (mapInstanceRef = NoMap /\ mapInstanceRef' # NoMap)
           => ( /\ highlightedMarkerIdRef' = NULL
                /\ Emphasized' = {}
                /\ OpenWindows' = {}
                /\ mapCenter' = FitBounds(CreateMap(Cur, tours), tours).mapCenter
                /\ mapZoom' = FitBounds(CreateMap(Cur, tours), tours).mapZoom )
      ]_vars

\* highlightMarker("a") ran last for an entity of the list with coordinates,
\* the SDK global is there, and the call found no map: it was dropped.
C7_Witness ==
    /\ lastOp = Op("highlightMarker", "a")
    /\ InList("a") /\ Resolvable("a")
    /\ windowNaver
    /\ mapInstanceRef = NoMap
    /\ highlightedMarkerIdRef = NULL

\* ------------------------------------------------------------- C8
ListIds == {tours[i].contentid : i \in 1..Len(tours)}

\* C8: the cleanup at unmount leaves the registry and the icon cache empty,
\* no entity highlighted, every marker detached and every info window closed;
\* the cleanup before a rebuild leaves, once the rebuild has run, no marker and
\* no info window of the session before on screen, no registry or cache key
\* from outside the new list and no entity highlighted; and after a rebuild
\* with the empty list the registry is empty and no marker is on a map.
C8_Teardown ==
    [][ /\ (Unmount /\ hasCleanup)
           => ( /\ DOMAIN markerIndexMapRef' = {}
                /\ DOMAIN originalIconsRef' = {}
                /\ highlightedMarkerIdRef' = NULL
                /\ \A h \in DOMAIN markerObj' :
                      markerObj'[h].map = NoMap /\ ~iwObj'[h].open )
        /\ (MapEffect /\ hasCleanup)
           => ( /\ highlightedMarkerIdRef' = NULL
                /\ \A h \in Range(markersRef) :
                      h \in DOMAIN markerObj'
                      => (markerObj'[h].map = NoMap /\ ~iwObj'[h].open)
                /\ DOMAIN markerIndexMapRef' \subseteq ListIds
                /\ DOMAIN originalIconsRef' \subseteq ListIds
                /\ tours = <<>>
                   => ( /\ DOMAIN markerIndexMapRef' = {}
                        /\ \A h \in DOMAIN markerObj' : markerObj'[h].map = NoMap ) )
      ]_vars

\* The component was unmounted with a session of two markers, one of them
\* emphasized when the cleanup ran.
C8_Witness ==
    /\ ~mounted
    /\ lastOp.op = "unmount"
    /\ Len(markersRef) = 2
    /\ \E h \in Range(markersRef) : IsEmphasized(markerObj[h].icon)

\* ------------------------------------------------------------- C9
\* C9: every marker on a map, and every open info window, is held by the refs
\* of the current session and is on the current map instance.
C9_OneSessionOnMap ==
    /\ \A h \in DOMAIN markerObj :
          Attached(h) => (h \in Range(markersRef) /\ markerObj[h].map = mapInstanceRef)
    /\ \A h \in OpenWindows :
          h \in Range(infoWindowsRef) /\ h[1] = mapInstanceRef

\* A second session is on the map: its markers are on the second map instance.
C9_Witness ==
    /\ mapInstanceRef = 2
    /\ lastOp.op = "mapEffect"
    /\ Cardinality({h \in DOMAIN markerObj : Attached(h)}) = 2

\* ------------------------------------------------------------- C10
\* The rebuild for the list of the last render has run.
InSync == mounted /\ hasCleanup /\ ~mapEffectPending

\* C10: after a rebuild there is exactly one marker per entity whose
\* coordinates resolve and none for the others; the registry maps the id of
\* each such entity to that marker, whose info window was created for the same
\* entity; and every registry key is the id of such an entity.
C10_OneMarkerPerResolvable ==
    InSync =>
      /\ \A i \in 1..Len(tours) :
            LET id == tours[i].contentid
                ms == {h \in DOMAIN markerObj : Attached(h) /\ markerObj[h].entity = id}
            IN  IF ParsesAsPosition(tours[i])
                THEN /\ Cardinality(ms) = 1
                     /\ \A h \in ms : Registered(id) = <<h>> /\ iwObj[h].entity = id
                ELSE ms = {} /\ id \notin DOMAIN markerIndexMapRef
      /\ DOMAIN markerIndexMapRef \subseteq ListIds
      /\ Cardinality({h \in DOMAIN markerObj : Attached(h)}) = Len(markersRef)

\* ------------------------------------------------------------- C11
\* C11: in every reachable state at most one info window is open, whatever the
\* interleaving of marker clicks, moveToMarker calls and rebuilds.
C11_AtMostOneOpen == Cardinality(OpenWindows) <= 1

\* A marker was clicked while the session has two info windows and the other
\* marker's window had been opened by a click or a move before: one is open.
C11_Witness ==
    /\ lastOp.op = "click"
    /\ Len(infoWindowsRef) = 2
    /\ \E h \in OpenWindows : markerObj[h].entity = lastOp.arg
    /\ Cardinality(OpenWindows) = 1
    /\ highlightedMarkerIdRef # NULL /\ highlightedMarkerIdRef # lastOp.arg

\* ------------------------------------------------------------- C12
\* C12: an info window becomes open only by a click on its marker: no command
\* of the handle and no run of the map effect opens an info window.
C12_OpensOnlyOnClick ==
    [][(AnyCommand \/ MapEffect) => OpenWindows' \subseteq OpenWindows]_vars

\* ------------------------------------------------------------- C13
\* C13: a highlight or move command that ran between a render with a new list
\* and the map effect of that render acted on the session of the list before;
\* once the effect has run no entity is highlighted, no marker of the new
\* session is emphasized or shows another icon than the one it was created
\* with, and no info window is open.
C13_StaleCommandLeavesNothing ==
    [][(MapEffect /\ lastOp.op \in {"highlightMarker", "moveToMarker"})
          => ( /\ highlightedMarkerIdRef' = NULL
               /\ Emphasized' = {}
               /\ OpenWindows' = {}
               /\ \A h \in DOMAIN markerObj' :
                     Attached(h)' => markerObj'[h].icon = markerObj'[h].icon0
               /\ ~threw' )]_vars

\* The map effect has built a second session right after a highlight command
\* that had left an entity highlighted on the session before.
C13_Witness ==
    /\ lastOp = Op("mapEffect", "highlighted")
    /\ mapInstanceRef = 2
    /\ Len(markersRef) = 2
    /\ highlightedMarkerIdRef = NULL

\* ------------------------------------------------------------- the page
\* Engine instances that mount in one document: HomeTourView renders the
\* engine in its desktop grid and again in the map tab of its mobile layout.
MaxInstances == 2

Instances == 1..MaxInstances

NoScript == NoMap

\* An instance before its mount: useRef(false), useState(false), no script.
Unmounted ==
    [phase |-> "unmounted", scriptLoadedRef |-> FALSE, isScriptLoaded |-> FALSE,
     script |-> NoScript]

\* The variables of the single engine instance do not take part in the page.
engineVars ==
    <<tours, mounted, script, scriptLoadedRef, isScriptLoaded, scriptEffectPending,
      mapEffectPending, hasCleanup, sessionVars, lastOp>>

PageInit ==
    /\ clientId \in BOOLEAN
    /\ windowNaver \in BOOLEAN
    /\ instances = [i \in Instances |-> Unmounted]
    /\ headScripts = <<>>
    /\ tours = <<>>
    /\ mounted = FALSE
    /\ script = "none"
    /\ scriptLoadedRef = FALSE
    /\ isScriptLoaded = FALSE
    /\ scriptEffectPending = FALSE
    /\ mapEffectPending = FALSE
    /\ hasCleanup = FALSE
    /\ mapInstanceRef = NoMap
    /\ mapCenter = NoCenter
    /\ mapZoom = NoZoom
    /\ markersRef = <<>>
    /\ infoWindowsRef = <<>>
    /\ markerIndexMapRef = EmptyMap
    /\ originalIconsRef = EmptyMap
    /\ highlightedMarkerIdRef = NULL
    /\ markerObj = EmptyMap
    /\ iwObj = EmptyMap
    /\ threw = FALSE
    /\ setIconCalls = 0
    /\ lastOp = Op("page", NULL)
    /\ rawLongitude = EmptyStr
    /\ rawLatitude = EmptyStr
    /\ normalized = <<>>
    /\ renormalized = <<>>
    /\ viewTours = <<>>
    /\ initialView = <<>>
    /\ bookmarkButton = <<>>

\* An instance mounts: the desktop one with the view, the one of the map tab
\* when the tab is selected.
PageMount(i) ==
    /\ instances[i].phase = "unmounted"
    /\ instances' = [instances EXCEPT ![i].phase = "mounted"]
    /\ UNCHANGED <<clientId, windowNaver, headScripts, engineVars, normVars, viewVars, bookmarkVars>>

\* Lines 587-625 for instance i: the script-load effect after its mount.
PageScriptLoadEffect(i) ==
    /\ instances[i].phase = "mounted"
    /\ IF instances[i].scriptLoadedRef
       THEN /\ instances' = [instances EXCEPT
                                ![i].phase = "effectRan",
                                ![i].isScriptLoaded = (@ \/ windowNaver)]
            /\ UNCHANGED headScripts
       ELSE IF ~clientId
       THEN /\ instances' = [instances EXCEPT ![i].phase = "effectRan"]
            /\ UNCHANGED headScripts
       ELSE IF windowNaver
       THEN /\ instances' = [instances EXCEPT
                                ![i].phase = "effectRan",
                                ![i].scriptLoadedRef = TRUE,
                                ![i].isScriptLoaded = TRUE]
            /\ UNCHANGED headScripts
       ELSE /\ headScripts' = Append(headScripts, "loading")
            /\ instances' = [instances EXCEPT
                                ![i].phase = "effectRan",
                                ![i].script = Len(headScripts) + 1]
    /\ UNCHANGED <<clientId, windowNaver, engineVars, normVars, viewVars, bookmarkVars>>

\* Lines 613-616 for the k-th script of the document: the SDK has defined
\* window.naver.maps; the state update of an unmounted instance is dropped.
PageScriptOnload(k) ==
    /\ k \in 1..Len(headScripts)
    /\ headScripts[k] = "loading"
    /\ headScripts' = [headScripts EXCEPT ![k] = "loaded"]
    /\ windowNaver' = TRUE
    /\ instances' = [i \in Instances |->
                       IF instances[i].script = k
                       THEN [instances[i] EXCEPT
                               !.scriptLoadedRef = TRUE,
                               !.isScriptLoaded = (instances[i].phase = "effectRan")]
                       ELSE instances[i]]
    /\ UNCHANGED <<clientId, engineVars, normVars, viewVars, bookmarkVars>>

\* Lines 617-619 for the k-th script of the document.
PageScriptOnerror(k) ==
    /\ k \in 1..Len(headScripts)
    /\ headScripts[k] = "loading"
    /\ headScripts' = [headScripts EXCEPT ![k] = "error"]
    /\ UNCHANGED <<clientId, windowNaver, instances, engineVars, normVars, viewVars, bookmarkVars>>

\* An instance unmounts (the map tab is left, the view goes away); lines
\* 622-624: the cleanup of the script-load effect removes nothing.
PageUnmount(i) ==
    /\ instances[i].phase \in {"mounted", "effectRan"}
    /\ instances' = [instances EXCEPT ![i].phase = "gone", ![i].isScriptLoaded = FALSE]
    /\ UNCHANGED <<clientId, windowNaver, headScripts, engineVars, normVars, viewVars, bookmarkVars>>

PageNext ==
    \/ \E i \in Instances : PageMount(i)
    \/ \E i \in Instances : PageScriptLoadEffect(i)
    \/ \E k \in Instances : PageScriptOnload(k)
    \/ \E k \in Instances : PageScriptOnerror(k)
    \/ \E i \in Instances : PageUnmount(i)

PageSpec == PageInit /\ [][PageNext]_vars

\* ------------------------------------------------------------- C14
\* C14: over any interleaving of mounts of several engine instances, before,
\* during or after the load of the SDK script, at most one script element for
\* the SDK is ever appended to the document.
C14_OneScriptPerPage == Len(headScripts) <= 1

\* ------------------------------------------------------------- C15
\* Lines 804-821: what the engine renders while mounted: the map container
\* and the legend, whatever its state.
View == IF mounted THEN "map" ELSE "none"

\* C15: without the credential the engine, once its script-load effect has
\* run, shows a configuration error instead of the map area, and no script
\* load was attempted.
C15_MissingCredentialShown ==
    (mounted /\ ~clientId /\ ~scriptEffectPending)
        => (View = "configurationError" /\ script = "none")

\* ------------------------------------------------------------- C16
\* C16: after the load of the SDK script has failed the engine shows an error
\* in place of the map area, for good: it starts no other load and never
\* becomes ready.
C16_LoadFailureShown ==
    (mounted /\ script = "error")
        => (View = "error" /\ ~isScriptLoaded /\ mapInstanceRef = NoMap)

\* ------------------------------------------------------------- the normalizer
\* Positions per degree on the grid of sample positions inside the box.
GridPerDegree == 1

\* Longitudes and latitudes inside the box: the grid, both edges included, and
\* the position of the example in the source (lines 30-31).
InBoxLongitudes ==
    {Rat(LngMin * GridPerDegree + k, GridPerDegree) :
        k \in 0..((LngMax - LngMin) * GridPerDegree)}
    \cup {Rat(1269998434, DIVISOR)}

InBoxLatitudes ==
    {Rat(LatMin * GridPerDegree + k, GridPerDegree) :
        k \in 0..((LatMax - LatMin) * GridPerDegree)}
    \cup {Rat(374296913, DIVISOR)}

\* The two wire formats of a value with at most seven decimals: the decimal
\* numeral, and the integer numeral of the value times 10,000,000.
Decimal(v) == Numeral(v.n, v.d)

Legacy(v) == Numeral(v.n * (DIVISOR \div v.d), 1)

\* Numerals that are in neither format of a position inside the box: zero,
\* and two values that are outside the box after the division as well.
OtherNumerals == {Numeral(0, 1), Numeral(2000000000, 1), Numeral(1000000000, 1)}

RawLongitudes ==
    {Decimal(v) : v \in InBoxLongitudes} \cup {Legacy(v) : v \in InBoxLongitudes}
    \cup OtherNumerals \cup {TextStr}

RawLatitudes ==
    {Decimal(v) : v \in InBoxLatitudes} \cup {Legacy(v) : v \in InBoxLatitudes}
    \cup OtherNumerals \cup {TextStr}

\* String(x) of a number, as parseFloat applies it to an argument that is not
\* a string: "NaN" for NaN, else a numeral that reads back as the number.
toString(x) == IF IsNaN(x) THEN TextStr ELSE Numeral(x.n, x.d)

NormInit ==
    /\ rawLongitude \in RawLongitudes
    /\ rawLatitude \in RawLatitudes
    /\ normalized = <<>>
    /\ renormalized = <<>>
    /\ viewTours = <<>>
    /\ initialView = <<>>
    /\ bookmarkButton = <<>>
    /\ clientId = FALSE
    /\ windowNaver = FALSE
    /\ instances = <<>>
    /\ headScripts = <<>>
    /\ tours = <<>>
    /\ mounted = FALSE
    /\ script = "none"
    /\ scriptLoadedRef = FALSE
    /\ isScriptLoaded = FALSE
    /\ scriptEffectPending = FALSE
    /\ mapEffectPending = FALSE
    /\ hasCleanup = FALSE
    /\ mapInstanceRef = NoMap
    /\ mapCenter = NoCenter
    /\ mapZoom = NoZoom
    /\ markersRef = <<>>
    /\ infoWindowsRef = <<>>
    /\ markerIndexMapRef = EmptyMap
    /\ originalIconsRef = EmptyMap
    /\ highlightedMarkerIdRef = NULL
    /\ markerObj = EmptyMap
    /\ iwObj = EmptyMap
    /\ threw = FALSE
    /\ setIconCalls = 0
    /\ lastOp = Op("normalizer", NULL)

\* convertKATECToWGS84(mapx, mapy)
Normalize ==
    /\ normalized = <<>>
    /\ normalized' = <<convertKATECToWGS84(rawLongitude, rawLatitude)>>
    /\ UNCHANGED <<rawLongitude, rawLatitude, renormalized, clientId, windowNaver,
                   pageVars, engineVars, viewVars, bookmarkVars>>

\* convertKATECToWGS84 applied to the Coordinates the first call returned.
Renormalize ==
    /\ normalized # <<>>
    /\ renormalized = <<>>
    /\ renormalized' = <<convertKATECToWGS84(toString(normalized[1].longitude),
                                             toString(normalized[1].latitude))>>
    /\ UNCHANGED <<rawLongitude, rawLatitude, normalized, clientId, windowNaver,
                   pageVars, engineVars, viewVars, bookmarkVars>>

NormNext == Normalize \/ Renormalize

NormSpec == NormInit /\ [][NormNext]_vars

\* The number is inside the closed interval [lo, hi].
Within(x, lo, hi) == ~IsNaN(x) /\ ~Lt(x, Rat(lo, 1)) /\ ~Gt(x, Rat(hi, 1))

InBox(lng, lat) == Within(lng, LngMin, LngMax) /\ Within(lat, LatMin, LatMax)

\* ------------------------------------------------------------- C17
\* C17: for a raw pair whose parsed longitude is in [124,132] and latitude in
\* [33,43] the normalizer returns exactly the parsed pair, and normalizing
\* that result again returns it unchanged.
C17_InBoxIdentity ==
    (normalized # <<>> /\ InBox(parseFloat(rawLongitude), parseFloat(rawLatitude)))
        => ( /\ normalized[1] = [longitude |-> parseFloat(rawLongitude),
                                 latitude |-> parseFloat(rawLatitude)]
             /\ renormalized # <<>> => renormalized[1] = normalized[1] )

\* The pair on two edges of the box, (132, 33), was normalized twice.
C17_Witness ==
    /\ rawLongitude = Numeral(LngMax, 1)
    /\ rawLatitude = Numeral(LatMin, 1)
    /\ renormalized = <<[longitude |-> Rat(LngMax, 1), latitude |-> Rat(LatMin, 1)]>>

\* ------------------------------------------------------------- C18
\* C18: for every numeric raw pair, in the box or not, normalizing the
\* Position the normalizer returned returns that Position again.
C18_IdempotentOnOutputs ==
    ( /\ renormalized # <<>>
      /\ ~IsNaN(parseFloat(rawLongitude)) /\ ~IsNaN(parseFloat(rawLatitude)) )
        => renormalized[1] = normalized[1]

\* ------------------------------------------------------------- C19
\* C19: for a position v inside the box, the normalizer returns v for the
\* fixed-point encoding of v (v times 10,000,000 per axis), which is also what
\* it returns for the decimal encoding of v; (1269998434, 374296913) gives
\* longitude 126.9998434 and latitude 37.4296913.
C19_FormatInvariance ==
    \A lng \in InBoxLongitudes, lat \in InBoxLatitudes :
        ( /\ normalized # <<>>
          /\ rawLongitude = Legacy(lng)
          /\ rawLatitude = Legacy(lat) )
        => ( /\ normalized[1] = [longitude |-> lng, latitude |-> lat]
             /\ normalized[1] = convertKATECToWGS84(Decimal(lng), Decimal(lat)) )

\* The fixed-point pair of the example was normalized to the decimal pair.
C19_Witness ==
    /\ rawLongitude = Numeral(1269998434, 1)
    /\ rawLatitude = Numeral(374296913, 1)
    /\ normalized = <<[longitude |-> Rat(1269998434, DIVISOR),
                       latitude |-> Rat(374296913, DIVISOR)]>>

\* ------------------------------------------------------------- C20
\* C20: an entity with a raw coordinate that does not read as a number is
\* left out like one without coordinates: after a rebuild no marker on the map
\* was created for it, the registry has no entry for it, and the map centre,
\* to which it contributed nothing, is a position.
C20_NonNumericExcluded ==
    InSync =>
      \A i \in 1..Len(tours) :
          (tours[i].mapx.kind = "text" \/ tours[i].mapy.kind = "text")
          => ( /\ ~HasMarker(tours[i].contentid)
               /\ tours[i].contentid \notin DOMAIN markerIndexMapRef
               /\ ~IsNaN(mapCenter.lat) /\ ~IsNaN(mapCenter.lng) )

\* ------------------------------------------------------------- C21
\* C21: every Position the normalizer returns for a numeric raw pair has its
\* longitude in [124,132] and its latitude in [33,43]: a value outside the
\* box is divided by 10,000,000 and checked against the box again.
C21_OutputsInBox ==
    ( /\ normalized # <<>>
      /\ ~IsNaN(parseFloat(rawLongitude)) /\ ~IsNaN(parseFloat(rawLatitude)) )
        => InBox(normalized[1].longitude, normalized[1].latitude)

\* ------------------------------------------------------------- the initial view
\* Longest list the view is computed for.
MaxViewTours == 3

\* Entities for the view: p1 with p2, p4, p5, p6, p3 spans each step of the
\* zoom table; p7 comes without coordinates, p8 with coordinates that are not
\* numerals.
ViewEntities ==
    { TourItem("p1", TOUR_SPOT, Numeral(126, 1), Numeral(37, 1)),
      TourItem("p2", TOUR_SPOT, Numeral(126, 1), Numeral(37005, 1000)),
      TourItem("p3", TOUR_SPOT, Numeral(128, 1), Numeral(38, 1)),
      TourItem("p4", TOUR_SPOT, Numeral(12603, 100), Numeral(37, 1)),
      TourItem("p5", TOUR_SPOT, Numeral(12608, 100), Numeral(37, 1)),
      TourItem("p6", TOUR_SPOT, Numeral(1263, 10), Numeral(37, 1)),
      TourItem("p7", TOUR_SPOT, EmptyStr, EmptyStr),
      TourItem("p8", TOUR_SPOT, TextStr, TextStr) }

ViewLists ==
    {ts \in UNION {[1..n -> ViewEntities] : n \in 0..MaxViewTours} : DistinctIds(ts)}

\* The engine instance, the page and the normalizer at rest.
AtRest ==
    /\ clientId = FALSE
    /\ windowNaver = FALSE
    /\ instances = <<>>
    /\ headScripts = <<>>
    /\ rawLongitude = EmptyStr
    /\ rawLatitude = EmptyStr
    /\ normalized = <<>>
    /\ renormalized = <<>>
    /\ tours = <<>>
    /\ mounted = FALSE
    /\ script = "none"
    /\ scriptLoadedRef = FALSE
    /\ isScriptLoaded = FALSE
    /\ scriptEffectPending = FALSE
    /\ mapEffectPending = FALSE
    /\ hasCleanup = FALSE
    /\ mapInstanceRef = NoMap
    /\ mapCenter = NoCenter
    /\ mapZoom = NoZoom
    /\ markersRef = <<>>
    /\ infoWindowsRef = <<>>
    /\ markerIndexMapRef = EmptyMap
    /\ originalIconsRef = EmptyMap
    /\ highlightedMarkerIdRef = NULL
    /\ markerObj = EmptyMap
    /\ iwObj = EmptyMap
    /\ threw = FALSE
    /\ setIconCalls = 0
    /\ lastOp = Op("none", NULL)

ViewInit ==
    /\ viewTours \in ViewLists
    /\ initialView = <<>>
    /\ bookmarkButton = <<>>
    /\ AtRest

\* Lines 634-783 on a fresh instance: the centre and zoom the map is left
\* with and the number of markers created.
ViewOf(ts) ==
    LET s == Build(Cur, ts)
    IN  [center |-> s.mapCenter, zoom |-> s.mapZoom, markers |-> Len(s.markersRef)]

ComputeInitialView ==
    /\ initialView = <<>>
    /\ initialView' = <<ViewOf(viewTours)>>
    /\ UNCHANGED <<viewTours, clientId, windowNaver, pageVars, normVars, engineVars,
                   bookmarkVars>>

ViewNext == ComputeInitialView

ViewSpec == ViewInit /\ [][ViewNext]_vars

\* The positions of the entities whose raw coordinates both read as numbers.
Resolved(ts) ==
    LET kept == SelectSeq(ts, ParsesAsPosition)
    IN  [i \in 1..Len(kept) |-> convertKATECToWGS84(kept[i].mapx, kept[i].mapy)]

Latitudes(ps) == [i \in 1..Len(ps) |-> ps[i].latitude]

Longitudes(ps) == [i \in 1..Len(ps) |-> ps[i].longitude]

MeanOf(xs) == DivInt(SumOf(xs), Len(xs))

\* ------------------------------------------------------------- C22
\* C22: for a list with two or more resolvable positions the centre of the
\* initial view is the arithmetic mean of the resolved positions, per axis.
C22_CenterIsMean ==
    (initialView # <<>> /\ Len(Resolved(viewTours)) >= 2)
        => initialView[1].center =
              [lat |-> MeanOf(Latitudes(Resolved(viewTours))),
               lng |-> MeanOf(Longitudes(Resolved(viewTours)))]

\* ------------------------------------------------------------- C23
\* The positions the engine fits the view to.
Fitted(ts) ==
    LET kept == SelectSeq(ts, LAMBDA t : getTourCoordinates(t) # <<>>)
    IN  [i \in 1..Len(kept) |-> getTourCoordinates(kept[i])[1]]

\* The larger of the latitude span and the longitude span of the positions.
Span(ps) ==
    Max2(Sub(MaxOf(Latitudes(ps)), MinOf(Latitudes(ps))),
         Sub(MaxOf(Longitudes(ps)), MinOf(Longitudes(ps))))

\* Spans on both sides of every step of the table, and the steps themselves.
SampleSpans ==
    {Rat(k, 1000) : k \in {0, 5, 9, 10, 30, 49, 50, 80, 99, 100, 300, 499, 500, 2000}}

\* C23: for two or more positions the zoom of the initial view is read from
\* the larger of the two spans: below 0.01 it is 15, else below 0.05 it is 13,
\* else below 0.1 it is 12, else below 0.5 it is 10, else 8; a larger span
\* never gets a larger zoom.
C23_ZoomStepTable ==
    /\ (initialView # <<>> /\ Len(Fitted(viewTours)) >= 2)
          => LET span == Span(Fitted(viewTours))
             IN  initialView[1].zoom =
                    IF Lt(span, Rat(1, 100)) THEN 15
                    ELSE IF Lt(span, Rat(5, 100)) THEN 13
                    ELSE IF Lt(span, Rat(1, 10)) THEN 12
                    ELSE IF Lt(span, Rat(5, 10)) THEN 10
                    ELSE 8
    /\ \A s1, s2 \in SampleSpans : Lt(s1, s2) => ZoomFor(s1) >= ZoomFor(s2)

\* The view of three positions with a span of 0.03 was computed: zoom 13.
C23_Witness ==
    /\ initialView # <<>>
    /\ Len(Resolved(viewTours)) = 3
    /\ Span(Fitted(viewTours)) = Rat(3, 100)
    /\ initialView[1].zoom = 13

\* ------------------------------------------------------------- C24
\* C24: when exactly one entity of the list has a resolvable position the
\* initial view is centred on that position, and it is the view the list of
\* that entity alone gets, whatever else the list holds.
C24_SinglePosition ==
    (initialView # <<>> /\ Len(Resolved(viewTours)) = 1)
        => LET only == SelectSeq(viewTours, ParsesAsPosition)
               pos == Resolved(viewTours)[1]
           IN  /\ initialView[1].center = [lat |-> pos.latitude, lng |-> pos.longitude]
               /\ initialView[1] = ViewOf(only)

\* ------------------------------------------------------------- C25
\* C25: when no entity of the list has a resolvable position the initial view
\* is the fallback centre (37.5665, 126.9780) at zoom 10 and no marker is
\* created.
C25_NoPositionFallback ==
    (initialView # <<>> /\ Len(Resolved(viewTours)) = 0)
        => initialView[1] = [center |-> [lat |-> Rat(375665, 10000),
                                         lng |-> Rat(126978, 1000)],
                             zoom |-> 10,
                             markers |-> 0]

\* ------------------------------------------------------------- C26
\* C26: in a ready session, moveToMarker(id) for an entity of the list that
\* has a marker sets the map centre to the position of that entity and leaves
\* open exactly the info window built for that entity, anchored on its marker,
\* also when entities earlier in the list got no marker.
C26_MoveOpensOwnWindow ==
    [][\A id \in ContentIds :
          ( /\ InSync /\ mapInstanceRef # NoMap
            /\ InList(id) /\ HasMarker(id) /\ Registered(id) # <<>>
            /\ MoveToMarker(id) )
          => LET h == Registered(id)[1]
             IN  /\ mapCenter' = markerObj[h].position
                 /\ OpenWindows' = {h}
                 /\ iwObj'[h].entity = id
                 /\ iwObj'[h].anchor = <<h>>]_vars

\* ------------------------------------------------------------- C27
\* React runs the effects a committed render has scheduled: the script-load
\* effect and the map effect are taken once they are pending, unless the
\* component unmounts first.  The load of the script and the host's renders
\* and commands are under no such obligation.
\* Weak fairness of the map effect, WF_vars(MapEffect), with its enabling
\* condition written out: the effect has no guard but mounted and
\* mapEffectPending, and every run of it clears mapEffectPending.
MapEffectFair ==
    []<>~(mounted /\ mapEffectPending) \/ []<><<MapEffect>>_vars

LiveSpec ==
    Init /\ [][Next]_vars /\ WF_vars(ScriptLoadEffect) /\ MapEffectFair

\* The session is built for the list of the last render: the map exists and
\* every entity whose coordinates resolve has its marker in the registry.
Built ==
    /\ InSync
    /\ mapInstanceRef # NoMap
    /\ \A i \in 1..Len(tours) :
          ParsesAsPosition(tours[i])
          => \E h \in DOMAIN markerObj :
                /\ Registered(tours[i].contentid) = <<h>>
                /\ Attached(h)
                /\ markerObj[h].entity = tours[i].contentid
                /\ \A g \in DOMAIN markerObj :
                      (Attached(g) /\ markerObj[g].entity = tours[i].contentid) => g = h

\* C27: once the script load has completed while the engine is mounted with
\* a credential, the session is eventually built for the current list (or the
\* engine is unmounted before); and on a built session highlightMarker and
\* moveToMarker for a registered id are applied: the entity becomes the
\* highlighted one with its marker emphasized, the centre moves to its marker.
C27_ReadinessLeadsToSession ==
    /\ (mounted /\ clientId /\ windowNaver /\ isScriptLoaded) ~> (Built \/ ~mounted)
    /\ [][\A id \in DOMAIN markerIndexMapRef :
             /\ (Built /\ HighlightMarker(id))
                => ( /\ highlightedMarkerIdRef' = id
                     /\ Emphasized' = {Registered(id)[1]} )
             /\ (Built /\ MoveToMarker(id))
                => mapCenter' = markerObj[Registered(id)[1]].position]_vars

\* The script was loaded from the network, the map effect has built the
\* session with two markers, and a highlight command on it was applied.
C27_Witness ==
    /\ Built
    /\ script = "loaded"
    /\ Len(markersRef) = 2
    /\ lastOp.op = "highlightMarker"
    /\ highlightedMarkerIdRef = lastOp.arg

\* ------------------------------------------------------------- C28
\* C28: in every reachable state highlightedMarkerIdRef is null or an id that
\* is a key of the marker registry and of the icon cache of the session, and
\* the registry's marker for it is on the map and was created for that entity:
\* it never names an entity of a session torn down or one without a marker.
C28_HighlightedIsRegistered ==
    highlightedMarkerIdRef # NULL
    => /\ highlightedMarkerIdRef \in DOMAIN markerIndexMapRef
       /\ highlightedMarkerIdRef \in DOMAIN originalIconsRef
       /\ \E h \in DOMAIN markerObj :
             /\ Registered(highlightedMarkerIdRef) = <<h>>
             /\ Attached(h)
             /\ markerObj[h].entity = highlightedMarkerIdRef

\* A second session was built after an entity had been highlighted on the
\* first, and nothing is highlighted on it.
C28_Witness ==
    /\ lastOp = Op("mapEffect", "highlighted")
    /\ highlightedMarkerIdRef = NULL
    /\ markerIndexMapRef # EmptyMap
    /\ mapInstanceRef = 2

\* ------------------------------------------------------------- C29
\* The icon every marker displays.
Icons == [h \in DOMAIN markerObj |-> markerObj[h].icon]

\* C29: highlightMarker and unhighlightMarker change neither the map centre,
\* the zoom, the registry nor the info windows; moveToMarker and setCenter
\* change neither highlightedMarkerIdRef, the icon of any marker nor the
\* registry; and setCenter opens and closes no info window.
C29_CommandFrames ==
    [][ /\ ((\E id \in ContentIds : HighlightMarker(id)) \/ UnhighlightMarker)
           => ( /\ UNCHANGED <<mapCenter, mapZoom, mapInstanceRef>>
                /\ UNCHANGED <<markersRef, infoWindowsRef, markerIndexMapRef>>
                /\ UNCHANGED iwObj )
        /\ ((\E id \in ContentIds : MoveToMarker(id)) \/ (\E c \in CenterArgs : SetCenter(c)))
           => ( /\ UNCHANGED <<highlightedMarkerIdRef, originalIconsRef>>
                /\ UNCHANGED <<markersRef, infoWindowsRef, markerIndexMapRef>>
                /\ Icons' = Icons )
        /\ (\E c \in CenterArgs : SetCenter(c)) => UNCHANGED iwObj ]_vars

\* setCenter has moved the map while an info window is open and an entity is
\* highlighted.
C29_Witness ==
    /\ lastOp.op = "setCenter"
    /\ mapCenter \in CenterArgs
    /\ OpenWindows # {}
    /\ Emphasized # {}

\* ------------------------------------------------------------- the bookmark button
\* Content ids the button is rendered for.
BookmarkIds == {"a", "b"}

\* The button after its first render: useState(false), useState(true),
\* useState(false), useState(null).
BookmarkInit ==
    /\ bookmarkButton \in
          [ clerkUserId : BOOLEAN,           \* a user is signed in (isLoaded)
            contentId : BookmarkIds,         \* the contentId prop
            bookmarks : SUBSET BookmarkIds,  \* the user's rows on the server
            isBookmarked : {FALSE},
            isLoading : {TRUE},
            isToggling : {FALSE},
            supabaseUserId : {FALSE},        \* null / an id
            checks : {{}},                   \* isBookmarkedClient calls in flight
            toggle : {<<>>},                 \* the add or remove request in flight
            shownBefore : {FALSE},           \* isBookmarked when the toggle started
            lastOp : {"mount"} ]
    /\ viewTours = <<>>
    /\ initialView = <<>>
    /\ AtRest

BookmarkStep(b) ==
    /\ bookmarkButton' = b
    /\ UNCHANGED <<clientId, windowNaver, engineVars, pageVars, normVars, viewVars>>

\* Lines 105-133: the effect that checks the bookmark status, run when
\* isLoading, supabaseUserId or contentId has changed.
checkBookmarkStatusEffect(b) ==
    IF b.isLoading THEN b
    ELSE IF b.supabaseUserId
         THEN [b EXCEPT !.checks = @ \cup {b.contentId}]
         ELSE [b EXCEPT !.isBookmarked = FALSE]

\* Lines 70-100: fetchSupabaseUserId settles; found tells whether the users
\* table has a row for the signed-in user.
FetchSupabaseUserId(found) ==
    /\ bookmarkButton.isLoading
    /\ BookmarkStep(
          checkBookmarkStatusEffect(
             [bookmarkButton EXCEPT
                 !.supabaseUserId = bookmarkButton.clerkUserId /\ found,
                 !.isLoading = FALSE,
                 !.lastOp = "fetchSupabaseUserId"]))

\* Lines 112-122: isBookmarkedClient for content id cid settles.
CheckBookmarkStatus(cid, ok) ==
    /\ cid \in bookmarkButton.checks
    /\ BookmarkStep(
          [bookmarkButton EXCEPT
              !.isBookmarked = ok /\ cid \in bookmarkButton.bookmarks,
              !.checks = @ \ {cid},
              !.lastOp = "checkBookmarkStatus"])

\* The host renders the button with another contentId.
BookmarkRender(cid) ==
    /\ cid # bookmarkButton.contentId
    /\ BookmarkStep(
          checkBookmarkStatusEffect(
             [bookmarkButton EXCEPT !.contentId = cid, !.lastOp = "render"]))

\* Lines 138-143: a click on the button of lines 196-210, which is rendered
\* for a signed-in user once loading is over and is disabled while toggling.
HandleToggleBookmark ==
    /\ bookmarkButton.clerkUserId
    /\ ~bookmarkButton.isLoading
    /\ bookmarkButton.supabaseUserId
    /\ ~bookmarkButton.isToggling
    /\ BookmarkStep(
          [bookmarkButton EXCEPT
              !.isToggling = TRUE,
              !.toggle = <<[contentId |-> bookmarkButton.contentId,
                            isBookmarked |-> bookmarkButton.isBookmarked]>>,
              !.shownBefore = bookmarkButton.isBookmarked,
              !.lastOp = "handleToggleBookmark"])

\* Lines 145-153, 159-161: the request of the toggle resolves.
ToggleResolves ==
    /\ bookmarkButton.toggle # <<>>
    /\ LET t == bookmarkButton.toggle[1]
       IN  BookmarkStep(
              [bookmarkButton EXCEPT
                  !.bookmarks = IF t.isBookmarked THEN @ \ {t.contentId}
                                ELSE @ \cup {t.contentId},
                  !.isBookmarked = ~t.isBookmarked,
                  !.isToggling = FALSE,
                  !.toggle = <<>>,
                  !.lastOp = "toggleResolved"])

\* Lines 154-161: the request of the toggle rejects; the handler sets
\* !isBookmarked with the isBookmarked of the render the click came from.
ToggleRejects ==
    /\ bookmarkButton.toggle # <<>>
    /\ LET t == bookmarkButton.toggle[1]
       IN  BookmarkStep(
              [bookmarkButton EXCEPT
                  !.isBookmarked = ~t.isBookmarked,
                  !.isToggling = FALSE,
                  !.toggle = <<>>,
                  !.lastOp = "toggleRejected"])

BookmarkNext ==
    \/ \E found \in BOOLEAN : FetchSupabaseUserId(found)
    \/ \E cid \in BookmarkIds, ok \in BOOLEAN : CheckBookmarkStatus(cid, ok)
    \/ \E cid \in BookmarkIds : BookmarkRender(cid)
    \/ HandleToggleBookmark
    \/ ToggleResolves
    \/ ToggleRejects

BookmarkSpec == BookmarkInit /\ [][BookmarkNext]_vars

\* ------------------------------------------------------------- C30
\* C30: when the add or remove request of a toggle has failed, the bookmark
\* state the button shows equals the state it showed when the toggle was
\* started, and the toggling flag is cleared.
C30_FailedToggleRestores ==
    bookmarkButton.lastOp = "toggleRejected"
    => /\ bookmarkButton.isBookmarked = bookmarkButton.shownBefore
       /\ ~bookmarkButton.isToggling
====
